---- MODULE Spec2Model ----
(***************************************************************************)
(* Maze Quest (src/src/app.component.ts): the maze generator, the entity   *)
(* placement, the enemy and stalker movement, the move resolver            *)
(* (checkGameState) and the session state machine of AppComponent.         *)
(*                                                                         *)
(* Coordinates are those of the source: x is the column, y the row, both   *)
(* 0-based; maze[y][x] of the source is Get(maze, x, y) here.  Cells are   *)
(* the source's strings "W" (wall), " " (path), "S" (start), "E" (exit).   *)
(*                                                                         *)
(* Math.random() is an input.  Every operation that draws random numbers   *)
(* takes a seed; its k-th draw of an integer below n is Random(seed, k, n).*)
(* The seeds are taken from a small set, so the random outcomes explored   *)
(* are a subset of those the program can see.                              *)
(***************************************************************************)
EXTENDS Integers, Sequences, FiniteSets, TLC

(***************************************************************************)
(* Bounds of the exploration (not program constants).                      *)
(***************************************************************************)
NumGenSeeds == 12      \* seeds 1..NumGenSeeds for the generator on its own
MaxGenLevel == 31      \* levels 1..MaxGenLevel for the generator on its own
MaxTimers == 2         \* interval tasks of the timer active at once
NumSeeds == 2          \* seeds 1..NumSeeds at the first levels
MaxTimer == 2          \* the timer is ticked up to this value at the first levels
MaxScoreTimer == 101   \* the timer is ticked up to this value where the score is studied
MaxSkipLevel == 30     \* skips are explored below this level
MaxRegens == 1         \* regenerations explored per load of a level
MaxEnemyTicks == 1     \* enemy ticks explored per spawn of the enemies
MaxStalkerTicks == 1   \* stalker ticks explored per spawn of the stalkers
AiRange == 1           \* ticks are explored with an entity this close to the player
MaxAfterTick == 1      \* moves explored after an AI tick or a regeneration
NumRegenSeeds == 2     \* seeds 1..NumRegenSeeds for a regeneration where placement is studied
MaxPlaceIcons == 3     \* icons (the first ones placed) stepped on where placement is studied
MaxChaseTicks == 3     \* stalker ticks in a row where the pursuit is studied
MaxWanderLevel == 22   \* levels whose enemies are followed on their way
MaxWanderTicks == 5    \* enemy ticks followed per level
MaxPairlessLevel == 28 \* levels whose teleporters are checked with a cut sequence

(***************************************************************************)
(* Program constants.                                                      *)
(***************************************************************************)
BaseSize == 7          \* generateMaze: size = 7 + (sizeLevel - 1) * 2
SizeCapLevel == 30     \* generateMaze: sizeLevel = Math.min(level, 30)
FinalLevel == 30       \* checkGameState: level() === 30 ends the game
NoSkipLevel == 29      \* skipLevels: level() === 29 cannot be skipped
EnemyLevel == 15       \* spawnEnemies: level < 15 has no enemies
RegenLevel == 10       \* spawnRegenerateIcons: level < 10 has no icons
TeleporterLevel == 20  \* spawnTeleporters: level < 20 has no teleporters
StalkerLevel == 25     \* spawnStalkers, startStalkerMovement: level < 25
EnemyDist == 5         \* spawnEnemies: distFromStart > 5
RegenDist == 8         \* spawnRegenerateIcons: distFromStart > 8, distFromExit > 8
StalkerDist == 10      \* spawnStalkers: distFromStart > 10
MaxEnemies == 4        \* spawnEnemies: Math.min(4, ...)
MaxTeleporters == 14   \* spawnTeleporters: Math.min(14, ...)
StalkerCount == 1      \* spawnStalkers: stalkerCount = 1
TimeBonus == 1000      \* checkGameState: 1000 - timer * 10
TimePenalty == 10      \* checkGameState: timer * 10
LevelBonus == 500      \* checkGameState: 500 * level

Min(a, b) == IF a < b THEN a ELSE b
Max(a, b) == IF a > b THEN a ELSE b
Abs(a) == IF a < 0 THEN -a ELSE a
Sign(a) == IF a > 0 THEN 1 ELSE IF a < 0 THEN -1 ELSE 0

Pos(x, y) == [x |-> x, y |-> y]

(***************************************************************************)
(* Math.floor(Math.random() * n): the k-th draw of the stream of `seed`.   *)
(***************************************************************************)
Random(seed, k, n) ==
    ((((seed * 7919 + k * 104729 + ((k * k) % 1009) * 613 + ((seed * k) % 917) * 31) % 65521) \div 7) % n)

Get(m, x, y) == m[y + 1][x + 1]
Put(m, x, y, c) == [m EXCEPT ![y + 1][x + 1] = c]
InBounds(m, x, y) == y >= 0 /\ y < Len(m) /\ x >= 0 /\ x < Len(m[y + 1])

\* The size without Math.min(level, 30).
MazeSizeUncapped(level) == BaseSize + (level - 1) * 2

MazeSize(level) == BaseSize + (Min(level, SizeCapLevel) - 1) * 2

(***************************************************************************)
(* generateMaze.  The recursion of carve is run with an explicit stack of  *)
(* frames (cell, shuffled directions, index of the next direction): a step *)
(* either enters the next neighbour that is still a wall (opening the cell *)
(* between), moves on to the next direction, or returns.  CarveRun(d, ...) *)
(* runs up to 2^d steps, more than five per lattice cell of the largest    *)
(* maze.  The stream index k counts the draws made so far.                 *)
(***************************************************************************)
Swap(d, i, j) == [d EXCEPT ![i] = d[j], ![j] = d[i]]

\* Fisher-Yates over [[0,-2],[0,2],[-2,0],[2,0]]: i = 3, 2, 1 and j = floor(random * (i + 1)).
Shuffle(seed, k) ==
    LET d0 == << <<0, -2>>, <<0, 2>>, <<-2, 0>>, <<2, 0>> >>
        d1 == Swap(d0, 4, Random(seed, k, 4) + 1)
        d2 == Swap(d1, 3, Random(seed, k + 1, 3) + 1)
    IN  Swap(d2, 2, Random(seed, k + 2, 2) + 1)

\* CarveStep with the wall between the two cells left standing: the cell opened is
\* (nx - dx, ny - dy), not (nx - dx/2, ny - dy/2).
CarveStepNoHalf(s, seed, size) ==
    IF s.stack = << >> THEN s
    ELSE LET n == Len(s.stack)
             f == s.stack[n]
         IN  IF f.i > 4 THEN [s EXCEPT !.stack = SubSeq(s.stack, 1, n - 1)]
             ELSE LET nx == f.cx + f.dirs[f.i][1]
                      ny == f.cy + f.dirs[f.i][2]
                  IN  IF ny > 0 /\ ny < size - 1 /\ nx > 0 /\ nx < size - 1 /\ Get(s.maze, nx, ny) = "W"
                      THEN [maze |-> Put(Put(s.maze, nx - f.dirs[f.i][1], ny - f.dirs[f.i][2], " "),
                                         nx, ny, " "),
                            stack |-> Append([s.stack EXCEPT ![n].i = f.i + 1],
                                             [cx |-> nx, cy |-> ny, dirs |-> Shuffle(seed, s.k), i |-> 1]),
                            k |-> s.k + 3]
                      ELSE [s EXCEPT !.stack[n].i = f.i + 1]

CarveStep(s, seed, size) ==
    IF s.stack = << >> THEN s
    ELSE LET n == Len(s.stack)
             f == s.stack[n]
         IN  IF f.i > 4 THEN [s EXCEPT !.stack = SubSeq(s.stack, 1, n - 1)]
             ELSE LET nx == f.cx + f.dirs[f.i][1]
                      ny == f.cy + f.dirs[f.i][2]
                  IN  IF ny > 0 /\ ny < size - 1 /\ nx > 0 /\ nx < size - 1 /\ Get(s.maze, nx, ny) = "W"
                      THEN [maze |-> Put(Put(s.maze, nx - f.dirs[f.i][1] \div 2, ny - f.dirs[f.i][2] \div 2, " "),
                                         nx, ny, " "),
                            stack |-> Append([s.stack EXCEPT ![n].i = f.i + 1],
                                             [cx |-> nx, cy |-> ny, dirs |-> Shuffle(seed, s.k), i |-> 1]),
                            k |-> s.k + 3]
                      ELSE [s EXCEPT !.stack[n].i = f.i + 1]

RECURSIVE CarveRun(_, _, _, _)
CarveRun(d, s, seed, size) ==
    IF s.stack = << >> THEN s
    ELSE IF d = 0 THEN CarveStep(s, seed, size)
    ELSE CarveRun(d - 1, CarveRun(d - 1, s, seed, size), seed, size)

\* carve(1, 1) on a maze of walls; the result holds the maze and the draws made.
carve(maze, seed, size) ==
    CarveRun(13, [maze |-> Put(maze, 1, 1, " "),
                  stack |-> << [cx |-> 1, cy |-> 1, dirs |-> Shuffle(seed, 0), i |-> 1] >>,
                  k |-> 3], seed, size)

\* One iteration of the wall-removal loop.
RemoveStep(s, seed, size) ==
    IF s.n = 0 THEN s
    ELSE LET m == s.maze
             rx == Random(seed, s.k, size - 2) + 1
             ry == Random(seed, s.k + 1, size - 2) + 1
             isHorizontalWall == rx > 0 /\ rx < size - 1 /\ Get(m, rx - 1, ry) # "W" /\ Get(m, rx + 1, ry) # "W"
             isVerticalWall == ry > 0 /\ ry < size - 1 /\ Get(m, rx, ry - 1) # "W" /\ Get(m, rx, ry + 1) # "W"
         IN  [maze |-> IF Get(m, rx, ry) = "W" /\ (isHorizontalWall \/ isVerticalWall)
                       THEN Put(m, rx, ry, " ") ELSE m,
              k |-> s.k + 2, n |-> s.n - 1]

RECURSIVE RemoveRun(_, _, _, _)
RemoveRun(d, s, seed, size) ==
    IF s.n = 0 THEN s
    ELSE IF d = 0 THEN RemoveStep(s, seed, size)
    ELSE RemoveRun(d - 1, RemoveRun(d - 1, s, seed, size), seed, size)

\* removalIterations = Math.floor(size * level * 0.2) = (size * level) \div 5.
RemoveWalls(m, seed, k, level, size) ==
    RemoveRun(10, [maze |-> m, k |-> k, n |-> (size * level) \div 5], seed, size).maze

generateMaze(level, seed) ==
    LET size == MazeSize(level)
        walls == [y \in 1..size |-> [x \in 1..size |-> "W"]]
        c == carve(walls, seed, size)
        m == RemoveWalls(c.maze, seed, c.k, level, size)
    IN  Put(Put(m, 1, 1, "S"), size - 2, size - 2, "E")

(***************************************************************************)
(* Entity placement.  pathCells are collected row by row (y outer, x       *)
(* inner); each pick splices the drawn index out of the list.              *)
(***************************************************************************)
AllCells(size) == [i \in 1..(size * size) |-> Pos((i - 1) % size, (i - 1) \div size)]

Dist(a, b) == Abs(a.x - b.x) + Abs(a.y - b.y)

Splice(cells, i) == SubSeq(cells, 1, i - 1) \o SubSeq(cells, i + 1, Len(cells))

\* for (i = 0; i < count && pathCells.length > 0; i++) push(pathCells.splice(randIndex, 1)[0])
RECURSIVE PickCells(_, _, _, _)
PickCells(cells, seed, k, count) ==
    IF count <= 0 \/ cells = << >> THEN << >>
    ELSE LET randIndex == Random(seed, k, Len(cells))
         IN  << cells[randIndex + 1] >> \o PickCells(Splice(cells, randIndex + 1), seed, k + 1, count - 1)

\* enemyCount without Math.min(4, ...).
EnemyCountUncapped(level) == (level - EnemyLevel) \div 2 + 1

EnemyCount(level) == Min(MaxEnemies, (level - EnemyLevel) \div 2 + 1)

spawnEnemies(level, m, start, seed) ==
    IF level < EnemyLevel THEN << >>
    ELSE PickCells(SelectSeq(AllCells(Len(m)),
                             LAMBDA c : Get(m, c.x, c.y) = " " /\ Dist(c, start) > EnemyDist),
                   seed, 4000, EnemyCount(level))

\* count = (Math.random() < 0.5 ? 2 : 3) + 2; the draw 0 stands for random < 0.5.
\* The icons placed without regard to their distance from the Exit.
spawnRegenerateIconsNearExit(level, m, start, seed) ==
    IF level < RegenLevel THEN << >>
    ELSE LET size == Len(m)
             count == (IF Random(seed, 4010, 2) = 0 THEN 2 ELSE 3) + 2
         IN  PickCells(SelectSeq(AllCells(size),
                                 LAMBDA c : /\ Get(m, c.x, c.y) = " "
                                            /\ Dist(c, start) > RegenDist),
                       seed, 4011, count)

spawnRegenerateIcons(level, m, start, seed) ==
    IF level < RegenLevel THEN << >>
    ELSE LET size == Len(m)
             exitPos == Pos(size - 2, size - 2)
             count == (IF Random(seed, 4010, 2) = 0 THEN 2 ELSE 3) + 2
         IN  PickCells(SelectSeq(AllCells(size),
                                 LAMBDA c : /\ Get(m, c.x, c.y) = " "
                                            /\ Dist(c, start) > RegenDist
                                            /\ Dist(c, exitPos) > RegenDist),
                       seed, 4011, count)

\* count without the doubling of the number of pairs.
TeleporterCountSingles(level) == Min(MaxTeleporters, 2 + (level - TeleporterLevel) \div 4)

TeleporterCount(level) == Min(MaxTeleporters, 2 + ((level - TeleporterLevel) \div 4) * 2)

spawnTeleporters(level, m, start, regenPositions, seed) ==
    IF level < TeleporterLevel THEN << >>
    ELSE LET size == Len(m)
             exitPos == Pos(size - 2, size - 2)
         IN  PickCells(SelectSeq(AllCells(size),
                                 LAMBDA c : /\ Get(m, c.x, c.y) = " "
                                            /\ c # start
                                            /\ c # exitPos
                                            /\ \A i \in 1..Len(regenPositions) : regenPositions[i] # c),
                       seed, 4020, TeleporterCount(level))

spawnStalkers(level, m, start, seed) ==
    IF level < StalkerLevel THEN << >>
    ELSE PickCells(SelectSeq(AllCells(Len(m)),
                             LAMBDA c : Get(m, c.x, c.y) = " " /\ Dist(c, start) > StalkerDist),
                   seed, 4040, StalkerCount)

(***************************************************************************)
(* The breadth-first search of moveStalkers: a queue of cells, dequeued in *)
(* order, each with the second cell of its path (step) and the path's      *)
(* length; neighbours are visited down, up, right, left and marked when    *)
(* enqueued.  The search stops when the end cell is dequeued.              *)
(***************************************************************************)
\* One neighbour of the dequeued entry e, in direction d.
BfsVisit(s, m, e, d) ==
    LET newX == e.x + d[1]
        newY == e.y + d[2]
    IN  IF /\ newY >= 0 /\ newY < Len(m)
           /\ newX >= 0 /\ newX < Len(m[1])
           /\ Get(m, newX, newY) # "W"
           /\ ~Get(s.visited, newX, newY)
        THEN [s EXCEPT !.visited = Put(s.visited, newX, newY, TRUE),
                       !.queue = Append(s.queue,
                                        [x |-> newX, y |-> newY, len |-> e.len + 1,
                                         step |-> IF e.len = 1 THEN Pos(newX, newY) ELSE e.step])]
        ELSE s

BfsStep(s, m, end) ==
    IF s.done \/ s.head > Len(s.queue) THEN [s EXCEPT !.done = TRUE]
    ELSE LET e == s.queue[s.head]
         IN  IF e.x = end.x /\ e.y = end.y
             THEN [s EXCEPT !.done = TRUE, !.found = TRUE, !.foundPath = e]
             ELSE BfsVisit(BfsVisit(BfsVisit(BfsVisit([s EXCEPT !.head = s.head + 1],
                           m, e, <<0, 1>>), m, e, <<0, -1>>), m, e, <<1, 0>>), m, e, <<-1, 0>>)

RECURSIVE BfsRun(_, _, _, _)
BfsRun(d, s, m, end) ==
    IF s.done THEN s
    ELSE IF d = 0 THEN BfsStep(s, m, end)
    ELSE BfsRun(d - 1, BfsRun(d - 1, s, m, end), m, end)

\* The search from start to end over the non-wall cells of m (2^13 dequeues at most).
Bfs(m, start, end) ==
    LET size == Len(m)
        first == [x |-> start.x, y |-> start.y, len |-> 1, step |-> start]
    IN  BfsRun(13, [queue |-> << first >>, head |-> 1, done |-> FALSE, found |-> FALSE,
                    foundPath |-> first,
                    visited |-> Put([y \in 1..size |-> [x \in 1..size |-> FALSE]],
                                    start.x, start.y, TRUE)], m, end)

\* A chain of cardinally adjacent non-wall cells leads from a to b.
Connected(m, a, b) == Bfs(m, a, b).found

(***************************************************************************)
(* The state of AppComponent.  The signals and private fields keep their   *)
(* names.  Scheduled tasks:                                                *)
(*   timers           the number of active 1-second interval tasks         *)
(*   timerInterval    TRUE when the handle timerInterval refers to an      *)
(*                    active task (clearInterval on it then stops one)     *)
(*   enemyInterval, stalkersInterval                                       *)
(*                    TRUE when the handle's interval task is active       *)
(*   nextLevelTimeout TRUE while the 2000 ms level-advance is pending      *)
(*   hitTimeout       TRUE while the 400 ms hit recovery is pending        *)
(* Bookkeeping of the exploration, not of the program:                     *)
(*   lastOp           the handler that ran last                            *)
(*   enemyTicks, stalkerTicks                                              *)
(*                    ticks of each kind since the entities spawned        *)
(*   regens           regenerations since the level was loaded             *)
(*   movesSince       moves of the player since the last AI tick or        *)
(*                    regeneration of the level, 0 before the first        *)
(***************************************************************************)
VARIABLES level, score, timer, gameStatus, canTeleport, maze, playerPosition,
          enemies, stalkers, playerHit, regenerateIconPositions, teleporterPositions,
          startPosition, timers, timerInterval, enemyInterval, stalkersInterval,
          nextLevelTimeout, hitTimeout, lastOp, enemyTicks, stalkerTicks, regens,
          movesSince

vars == << level, score, timer, gameStatus, canTeleport, maze, playerPosition,
           enemies, stalkers, playerHit, regenerateIconPositions, teleporterPositions,
           startPosition, timers, timerInterval, enemyInterval, stalkersInterval,
           nextLevelTimeout, hitTimeout, lastOp, enemyTicks, stalkerTicks, regens,
           movesSince >>

\* The program's own state, without the exploration's bookkeeping.
gameVars == << level, score, timer, gameStatus, canTeleport, maze, playerPosition,
               enemies, stalkers, playerHit, regenerateIconPositions, teleporterPositions,
               startPosition, timers, timerInterval, enemyInterval, stalkersInterval,
               nextLevelTimeout, hitTimeout >>

\* The current state as a record, on which the handlers below compute.
St == [level |-> level, score |-> score, timer |-> timer, gameStatus |-> gameStatus,
       canTeleport |-> canTeleport, maze |-> maze, playerPosition |-> playerPosition,
       enemies |-> enemies, stalkers |-> stalkers, playerHit |-> playerHit,
       regenerateIconPositions |-> regenerateIconPositions,
       teleporterPositions |-> teleporterPositions, startPosition |-> startPosition,
       timers |-> timers, timerInterval |-> timerInterval, enemyInterval |-> enemyInterval,
       stalkersInterval |-> stalkersInterval, nextLevelTimeout |-> nextLevelTimeout,
       hitTimeout |-> hitTimeout, lastOp |-> lastOp, enemyTicks |-> enemyTicks,
       stalkerTicks |-> stalkerTicks, regens |-> regens,
       movesSince |-> movesSince]

\* The next state is the record r.
Becomes(r) ==
    /\ level' = r.level /\ score' = r.score /\ timer' = r.timer
    /\ gameStatus' = r.gameStatus /\ canTeleport' = r.canTeleport /\ maze' = r.maze
    /\ playerPosition' = r.playerPosition /\ enemies' = r.enemies /\ stalkers' = r.stalkers
    /\ playerHit' = r.playerHit /\ regenerateIconPositions' = r.regenerateIconPositions
    /\ teleporterPositions' = r.teleporterPositions /\ startPosition' = r.startPosition
    /\ timers' = r.timers /\ timerInterval' = r.timerInterval
    /\ enemyInterval' = r.enemyInterval /\ stalkersInterval' = r.stalkersInterval
    /\ nextLevelTimeout' = r.nextLevelTimeout /\ hitTimeout' = r.hitTimeout
    /\ lastOp' = r.lastOp /\ enemyTicks' = r.enemyTicks /\ stalkerTicks' = r.stalkerTicks
    /\ regens' = r.regens /\ movesSince' = r.movesSince

(***************************************************************************)
(* Timer and tickers.                                                      *)
(***************************************************************************)
\* startTimer: timer.set(0); timerInterval = setInterval(...).  The task the handle
\* referred to before is not cleared here.
startTimer(s) == [s EXCEPT !.timer = 0, !.timers = s.timers + 1, !.timerInterval = TRUE]

\* stopTimer: clearInterval(timerInterval).
stopTimer(s) ==
    IF s.timerInterval THEN [s EXCEPT !.timers = s.timers - 1, !.timerInterval = FALSE] ELSE s

stopEnemyMovement(s) == [s EXCEPT !.enemyInterval = FALSE]

startEnemyMovement(s) == [stopEnemyMovement(s) EXCEPT !.enemyInterval = TRUE]

stopStalkerMovement(s) == [s EXCEPT !.stalkersInterval = FALSE]

startStalkerMovement(s) ==
    IF s.level < StalkerLevel THEN stopStalkerMovement(s)
    ELSE [stopStalkerMovement(s) EXCEPT !.stalkersInterval = TRUE]

(***************************************************************************)
(* loadLevel: a new maze, canTeleport, and at the first "S" cell (row by   *)
(* row) the start position, the player and the four entity sets.           *)
(***************************************************************************)
\* The part of loadLevel after generateMaze, on the generated levelData.
PlaceLevel(s, lvl, levelData, seed) ==
    LET starts == SelectSeq(AllCells(Len(levelData)), LAMBDA c : Get(levelData, c.x, c.y) = "S")
        s1 == [s EXCEPT !.maze = levelData, !.canTeleport = TRUE, !.regens = 0]
    IN  IF starts = << >> THEN s1
        ELSE LET start == starts[1]
                 icons == spawnRegenerateIcons(lvl, levelData, start, seed)
             IN  [s1 EXCEPT !.startPosition = start,
                            !.playerPosition = start,
                            !.enemies = spawnEnemies(lvl, levelData, start, seed),
                            !.regenerateIconPositions = icons,
                            !.teleporterPositions = spawnTeleporters(lvl, levelData, start, icons, seed),
                            !.stalkers = spawnStalkers(lvl, levelData, start, seed),
                            !.enemyTicks = 0,
                            !.stalkerTicks = 0,
                            !.movesSince = 0]

loadLevel(s, lvl, seed) ==
    CHOOSE r \in { PlaceLevel(s, lvl, levelData, seed) : levelData \in {generateMaze(lvl, seed)} } : TRUE

(***************************************************************************)
(* regenerateMazeFromPlayerPosition.                                       *)
(***************************************************************************)
\* The part after the new layout is complete: the four entity sets are respawned.
Respawn(s, newMazeLayout, currentPos, seed) ==
    LET icons == spawnRegenerateIcons(s.level, newMazeLayout, currentPos, seed)
    IN  [s EXCEPT !.maze = newMazeLayout,
                  !.startPosition = currentPos,
                  !.enemies = spawnEnemies(s.level, newMazeLayout, currentPos, seed),
                  !.regenerateIconPositions = icons,
                  !.teleporterPositions = spawnTeleporters(s.level, newMazeLayout, currentPos, icons, seed),
                  !.stalkers = spawnStalkers(s.level, newMazeLayout, currentPos, seed),
                  !.enemyTicks = 0,
                  !.stalkerTicks = 0,
                  !.movesSince = 0,
                  !.regens = s.regens + 1]

\* The layout with the generated "S" at (1,1) left in place.
NewMazeLayoutKeepsStart(generated, currentPos) ==
    LET m1 == generated
        m2 == IF Get(m1, currentPos.x, currentPos.y) = "W"
              THEN Put(m1, currentPos.x, currentPos.y, " ") ELSE m1
    IN  Put(m2, currentPos.x, currentPos.y, "S")

\* The layout: the generated "S" is cleared, the player's cell is opened and marked "S".
NewMazeLayout(generated, currentPos) ==
    LET m1 == IF Get(generated, 1, 1) = "S" THEN Put(generated, 1, 1, " ") ELSE generated
        m2 == IF Get(m1, currentPos.x, currentPos.y) = "W"
              THEN Put(m1, currentPos.x, currentPos.y, " ") ELSE m1
    IN  Put(m2, currentPos.x, currentPos.y, "S")

regenerateMazeFromPlayerPosition(s, seed) ==
    CHOOSE r \in { Respawn(s, newMazeLayout, s.playerPosition, seed) :
                       newMazeLayout \in { NewMazeLayout(generated, s.playerPosition) :
                                               generated \in {generateMaze(s.level, seed)} } } : TRUE

(***************************************************************************)
(* loadNextLevel and checkGameState.                                       *)
(***************************************************************************)
\* The timeout's callback is the action NextLevelTimeout below.
loadNextLevel(s) ==
    [stopStalkerMovement(stopEnemyMovement(stopTimer([s EXCEPT !.gameStatus = "level-complete"])))
        EXCEPT !.nextLevelTimeout = TRUE]

\* The index (1-based) of the first element of seq equal to p, or 0.
IndexOf(seq, p) ==
    IF \E i \in 1..Len(seq) : seq[i] = p
    THEN CHOOSE i \in 1..Len(seq) : seq[i] = p /\ \A j \in 1..(i - 1) : seq[j] # p
    ELSE 0

Contains(seq, p) == \E i \in 1..Len(seq) : seq[i] = p

\* The stalker branch without stopEnemyMovement.
StalkerCaughtEnemiesRun(s) ==
    stopStalkerMovement(stopTimer([s EXCEPT !.gameStatus = "game-over"]))

\* The stalker branch: game over.
StalkerCaught(s) ==
    stopStalkerMovement(stopEnemyMovement(stopTimer([s EXCEPT !.gameStatus = "game-over"])))

\* The exit branch with a time bonus that is not clamped at 0.
ExitReachedNoClamp(s) ==
    LET timeBonus == TimeBonus - s.timer * TimePenalty
        s1 == [s EXCEPT !.score = s.score + timeBonus + LevelBonus * s.level]
    IN  IF s1.level = FinalLevel
        THEN stopStalkerMovement(stopEnemyMovement(stopTimer(
                 [s1 EXCEPT !.nextLevelTimeout = FALSE, !.gameStatus = "game-complete"])))
        ELSE loadNextLevel(s1)

\* The exit branch with game-complete from level 30 on.
ExitReachedFromFinal(s) ==
    LET timeBonus == Max(0, TimeBonus - s.timer * TimePenalty)
        s1 == [s EXCEPT !.score = s.score + timeBonus + LevelBonus * s.level]
    IN  IF s1.level >= FinalLevel
        THEN stopStalkerMovement(stopEnemyMovement(stopTimer(
                 [s1 EXCEPT !.nextLevelTimeout = FALSE, !.gameStatus = "game-complete"])))
        ELSE loadNextLevel(s1)

\* The exit branch: score, then game-complete at level 30 or loadNextLevel.
ExitReached(s) ==
    LET timeBonus == Max(0, TimeBonus - s.timer * TimePenalty)
        s1 == [s EXCEPT !.score = s.score + timeBonus + LevelBonus * s.level]
    IN  IF s1.level = FinalLevel
        THEN stopStalkerMovement(stopEnemyMovement(stopTimer(
                 [s1 EXCEPT !.nextLevelTimeout = FALSE, !.gameStatus = "game-complete"])))
        ELSE loadNextLevel(s1)

\* The enemy branch: playerHit and the 400 ms recovery timeout (HitRecovery below).
EnemyHit(s) == [s EXCEPT !.playerHit = TRUE, !.hitTimeout = TRUE]

\* checkGameState with the destination always at the next index.
checkGameStateNextIndex(s, seed) ==
    LET pos == s.playerPosition
        teleporterIndex == IndexOf(s.teleporterPositions, pos) - 1
        destinationIndex == teleporterIndex + 1
        teleports == teleporterIndex # -1 /\ s.canTeleport
        jumps == teleports /\ destinationIndex >= 0 /\ destinationIndex < Len(s.teleporterPositions)
        s1 == IF teleports THEN [s EXCEPT !.canTeleport = FALSE] ELSE s
    IN  IF s.gameStatus # "playing" \/ s.playerHit THEN s
        ELSE IF Contains(s.stalkers, pos) THEN StalkerCaught(s)
        ELSE IF jumps THEN [s1 EXCEPT !.playerPosition = s.teleporterPositions[destinationIndex + 1]]
        ELSE IF Contains(s1.regenerateIconPositions, pos) THEN regenerateMazeFromPlayerPosition(s1, seed)
        ELSE IF Get(s1.maze, pos.x, pos.y) = "E" THEN ExitReached(s1)
        ELSE IF Contains(s1.enemies, pos) THEN EnemyHit(s1)
        ELSE s1

\* checkGameState with the teleporter test ahead of the stalker test.
checkGameStateTeleportFirst(s, seed) ==
    LET pos == s.playerPosition
        teleporterIndex == IndexOf(s.teleporterPositions, pos) - 1
        destinationIndex == IF teleporterIndex % 2 = 0 THEN teleporterIndex + 1 ELSE teleporterIndex - 1
        teleports == teleporterIndex # -1 /\ s.canTeleport
        jumps == teleports /\ destinationIndex >= 0 /\ destinationIndex < Len(s.teleporterPositions)
        s1 == IF teleports THEN [s EXCEPT !.canTeleport = FALSE] ELSE s
    IN  IF s.gameStatus # "playing" \/ s.playerHit THEN s
        ELSE IF jumps THEN [s1 EXCEPT !.playerPosition = s.teleporterPositions[destinationIndex + 1]]
        ELSE IF Contains(s1.stalkers, pos) THEN StalkerCaught(s1)
        ELSE IF Contains(s1.regenerateIconPositions, pos) THEN regenerateMazeFromPlayerPosition(s1, seed)
        ELSE IF Get(s1.maze, pos.x, pos.y) = "E" THEN ExitReached(s1)
        ELSE IF Contains(s1.enemies, pos) THEN EnemyHit(s1)
        ELSE s1

checkGameState(s, seed) ==
    LET pos == s.playerPosition
        teleporterIndex == IndexOf(s.teleporterPositions, pos) - 1
        destinationIndex == IF teleporterIndex % 2 = 0 THEN teleporterIndex + 1 ELSE teleporterIndex - 1
        teleports == teleporterIndex # -1 /\ s.canTeleport
        jumps == teleports /\ destinationIndex >= 0 /\ destinationIndex < Len(s.teleporterPositions)
        s1 == IF teleports THEN [s EXCEPT !.canTeleport = FALSE] ELSE s
    IN  IF s.gameStatus # "playing" \/ s.playerHit THEN s
        ELSE IF Contains(s.stalkers, pos) THEN StalkerCaught(s)
        ELSE IF jumps THEN [s1 EXCEPT !.playerPosition = s.teleporterPositions[destinationIndex + 1]]
        ELSE IF Contains(s1.regenerateIconPositions, pos) THEN regenerateMazeFromPlayerPosition(s1, seed)
        ELSE IF Get(s1.maze, pos.x, pos.y) = "E" THEN ExitReached(s1)
        ELSE IF Contains(s1.enemies, pos) THEN EnemyHit(s1)
        ELSE s1

(***************************************************************************)
(* moveEnemies, moveStalkers, movePlayer.                                  *)
(***************************************************************************)
\* The priority with the vertical axis always taken first, whatever the gaps.
PriorityVerticalFirst(mdx, mdy, dx, dy) ==
    IF mdy # 0 /\ Sign(mdy) = Sign(dy) THEN 2
    ELSE IF mdx # 0 /\ Sign(mdx) = Sign(dx) THEN 1 ELSE 0

\* The priority of the step (mdx, mdy) for an enemy whose gap to the player is (dx, dy).
Priority(mdx, mdy, dx, dy) ==
    IF Abs(dx) > Abs(dy)
    THEN IF mdx # 0 /\ Sign(mdx) = Sign(dx) THEN 2
         ELSE IF mdy # 0 /\ Sign(mdy) = Sign(dy) THEN 1 ELSE 0
    ELSE IF mdy # 0 /\ Sign(mdy) = Sign(dy) THEN 2
         ELSE IF mdx # 0 /\ Sign(mdx) = Sign(dx) THEN 1 ELSE 0

\* possibleMoves without the test for walls.
PossibleMovesThroughWalls(m, playerPos, enemy) ==
    LET dx == playerPos.x - enemy.x
        dy == playerPos.y - enemy.y
        directions == << <<0, -1>>, <<0, 1>>, <<-1, 0>>, <<1, 0>> >>
        all == [i \in 1..4 |-> [x |-> enemy.x + directions[i][1], y |-> enemy.y + directions[i][2],
                                priority |-> Priority(directions[i][1], directions[i][2], dx, dy)]]
    IN  SelectSeq(all, LAMBDA c : InBounds(m, c.x, c.y))

\* possibleMoves of an enemy, in the order up, down, left, right.
PossibleMoves(m, playerPos, enemy) ==
    LET dx == playerPos.x - enemy.x
        dy == playerPos.y - enemy.y
        directions == << <<0, -1>>, <<0, 1>>, <<-1, 0>>, <<1, 0>> >>
        all == [i \in 1..4 |-> [x |-> enemy.x + directions[i][1], y |-> enemy.y + directions[i][2],
                                priority |-> Priority(directions[i][1], directions[i][2], dx, dy)]]
    IN  SelectSeq(all, LAMBDA c : InBounds(m, c.x, c.y) /\ Get(m, c.x, c.y) # "W")

\* One enemy's new position; the sort is stable, so bestMoves keep their order.
MoveEnemy(m, playerPos, enemy, seed, k) ==
    LET possibleMoves == PossibleMoves(m, playerPos, enemy)
        bestPriority == CHOOSE p \in 0..2 :
                            /\ \E i \in 1..Len(possibleMoves) : possibleMoves[i].priority = p
                            /\ \A i \in 1..Len(possibleMoves) : possibleMoves[i].priority <= p
        bestMoves == SelectSeq(possibleMoves, LAMBDA c : c.priority = bestPriority)
        chosenMove == bestMoves[Random(seed, k, Len(bestMoves)) + 1]
    IN  IF possibleMoves = << >> THEN enemy ELSE Pos(chosenMove.x, chosenMove.y)

moveEnemies(s, seed) ==
    checkGameState([s EXCEPT !.enemies = [i \in 1..Len(s.enemies) |->
                                            MoveEnemy(s.maze, s.playerPosition, s.enemies[i], seed, 4100 + i)],
                             !.enemyTicks = s.enemyTicks + 1,
                             !.movesSince = 0],
                   seed)

\* One stalker's new position, with the last step onto the player left out.
MoveStalkerStopsShort(m, player, stalker) ==
    LET b == Bfs(m, stalker, player)
    IN  IF b.found /\ b.foundPath.len > 2 THEN b.foundPath.step ELSE stalker

\* One stalker's new position: the second cell of the path found, if any.
MoveStalker(m, player, stalker) ==
    LET b == Bfs(m, stalker, player)
    IN  IF b.found /\ b.foundPath.len > 1 THEN b.foundPath.step ELSE stalker

moveStalkers(s, seed) ==
    IF s.stalkers = << >> THEN s
    ELSE checkGameState([s EXCEPT !.stalkers = [i \in 1..Len(s.stalkers) |->
                                                  MoveStalker(s.maze, s.playerPosition, s.stalkers[i])],
                                  !.stalkerTicks = s.stalkerTicks + 1,
                                  !.movesSince = 0],
                        seed)

\* movePlayer without the test for a wall.
movePlayerThroughWalls(s, dx, dy, seed) ==
    LET newPos == Pos(s.playerPosition.x + dx, s.playerPosition.y + dy)
    IN  IF s.gameStatus # "playing" \/ s.playerHit THEN s
        ELSE IF InBounds(s.maze, newPos.x, newPos.y)
        THEN checkGameState([s EXCEPT !.playerPosition = newPos,
                                      !.canTeleport = IF Contains(s.teleporterPositions, newPos)
                                                      THEN s.canTeleport ELSE TRUE,
                                      !.movesSince = IF s.enemyTicks + s.stalkerTicks + s.regens > 0
                                                     THEN s.movesSince + 1 ELSE 0],
                            seed)
        ELSE s

\* movePlayer without the test of playerHit.
movePlayerWhileHit(s, dx, dy, seed) ==
    LET newPos == Pos(s.playerPosition.x + dx, s.playerPosition.y + dy)
    IN  IF s.gameStatus # "playing" THEN s
        ELSE IF InBounds(s.maze, newPos.x, newPos.y) /\ Get(s.maze, newPos.x, newPos.y) # "W"
        THEN checkGameState([s EXCEPT !.playerPosition = newPos,
                                      !.canTeleport = IF Contains(s.teleporterPositions, newPos)
                                                      THEN s.canTeleport ELSE TRUE,
                                      !.movesSince = IF s.enemyTicks + s.stalkerTicks + s.regens > 0
                                                     THEN s.movesSince + 1 ELSE 0],
                            seed)
        ELSE s

movePlayer(s, dx, dy, seed) ==
    LET newPos == Pos(s.playerPosition.x + dx, s.playerPosition.y + dy)
    IN  IF s.gameStatus # "playing" \/ s.playerHit THEN s
        ELSE IF InBounds(s.maze, newPos.x, newPos.y) /\ Get(s.maze, newPos.x, newPos.y) # "W"
        THEN checkGameState([s EXCEPT !.playerPosition = newPos,
                                      !.canTeleport = IF Contains(s.teleporterPositions, newPos)
                                                      THEN s.canTeleport ELSE TRUE,
                                      !.movesSince = IF s.enemyTicks + s.stalkerTicks + s.regens > 0
                                                     THEN s.movesSince + 1 ELSE 0],
                            seed)
        ELSE s

(***************************************************************************)
(* Session operations.                                                     *)
(***************************************************************************)
startGame(s, seed) ==
    LET s1 == loadLevel([s EXCEPT !.score = 0, !.level = 1], 1, seed)
    IN  startStalkerMovement(startEnemyMovement(startTimer([s1 EXCEPT !.gameStatus = "playing"])))

\* The callback without the increment of the level.
nextLevelCallbackSameLevel(s, seed) ==
    LET s1 == loadLevel([s EXCEPT !.nextLevelTimeout = FALSE], s.level, seed)
    IN  startStalkerMovement(startEnemyMovement(startTimer([s1 EXCEPT !.gameStatus = "playing"])))

\* The callback of the timeout set by loadNextLevel.
nextLevelCallback(s, seed) ==
    LET s1 == loadLevel([s EXCEPT !.level = s.level + 1, !.nextLevelTimeout = FALSE], s.level + 1, seed)
    IN  startStalkerMovement(startEnemyMovement(startTimer([s1 EXCEPT !.gameStatus = "playing"])))

\* skipLevels without the refusal at level 29.
skipLevelsNoGuard(s, seed) ==
    IF s.gameStatus # "playing" THEN s
    ELSE LET s1 == stopStalkerMovement(stopEnemyMovement(stopTimer([s EXCEPT !.nextLevelTimeout = FALSE])))
             s2 == loadLevel([s1 EXCEPT !.level = s.level + 1], s.level + 1, seed)
         IN  startStalkerMovement(startEnemyMovement(startTimer(s2)))

skipLevels(s, seed) ==
    IF s.gameStatus # "playing" THEN s
    ELSE IF s.level = NoSkipLevel THEN s
    ELSE LET s1 == stopStalkerMovement(stopEnemyMovement(stopTimer([s EXCEPT !.nextLevelTimeout = FALSE])))
             s2 == loadLevel([s1 EXCEPT !.level = s.level + 1], s.level + 1, seed)
         IN  startStalkerMovement(startEnemyMovement(startTimer(s2)))

continueToInfinite(s, seed) ==
    LET s1 == loadLevel([s EXCEPT !.level = s.level + 1], s.level + 1, seed)
    IN  startStalkerMovement(startEnemyMovement(startTimer([s1 EXCEPT !.gameStatus = "playing"])))

restartGame(s) == [s EXCEPT !.gameStatus = "start"]

\* The callback of the 400 ms timeout set on an enemy collision.
hitRecoveryCallback(s) ==
    [s EXCEPT !.playerPosition = s.startPosition, !.playerHit = FALSE, !.hitTimeout = FALSE]

(***************************************************************************)
(* The actions: one per public operation and per scheduled task.  Each is  *)
(* the whole handler.  A scenario sc bounds the exploration:               *)
(*   sc.play       the levels at which moves and AI ticks are explored (at *)
(*                 the other levels the user skips on before anything      *)
(*                 happens)                                                *)
(*   sc.timed      the levels at which timer ticks are explored            *)
(*   sc.skipAfter  the handlers right after which a skip that loads a      *)
(*                 level is explored (a skip that changes nothing is       *)
(*                 explored everywhere)                                    *)
(*   sc.maxLevel   no skip or continue from this level on                  *)
(*   sc.maxTimer   the timer is not ticked beyond this value               *)
(*   sc.enemyTicks, sc.stalkerTicks                                        *)
(*                 ticks of each kind explored per spawn of the entities   *)
(*   sc.aiRange    a tick is explored when an enemy or a stalker is within *)
(*                 this distance of the player                             *)
(*   sc.afterTick  moves explored after an AI tick or a regeneration, up   *)
(*                 to the next one                                         *)
(*   sc.regens     regenerations explored per load of a level              *)
(*   sc.seeds      the seeds of the random draws                           *)
(*   sc.api        TRUE: the public operations are called in any status;   *)
(*                 FALSE: as the screens of the game offer them            *)
(***************************************************************************)
Dirs == { <<0, -1>>, <<0, 1>>, <<-1, 0>>, <<1, 0>> }

Near(seq, p, range) == \E i \in 1..Len(seq) : Dist(seq[i], p) <= range

Mark(r, op, dx, dy) == [r EXCEPT !.lastOp = [op |-> op, dx |-> dx, dy |-> dy]]

\* The screens: start offers startGame; game-over and game-complete offer
\* restartGame; game-complete offers continueToInfinite.
Offered(op) ==
    CASE op = "startGame" -> gameStatus = "start"
      [] op = "restartGame" -> gameStatus \in {"game-over", "game-complete"}
      [] op = "continueToInfinite" -> gameStatus = "game-complete"

StartGame(sc) ==
    /\ sc.api \/ Offered("startGame")
    /\ \E seed \in sc.seeds : \E r \in {Mark(startGame(St, seed), "startGame", 0, 0)} :
           r.timers <= MaxTimers /\ Becomes(r)

SkipLevels(sc) ==
    /\ level < sc.maxLevel
    /\ gameStatus # "playing" \/ level = NoSkipLevel \/ lastOp.op \in sc.skipAfter
    /\ \E seed \in sc.seeds : \E r \in {Mark(skipLevels(St, seed), "skipLevels", 0, 0)} :
           r.timers <= MaxTimers /\ Becomes(r)

ContinueToInfinite(sc) ==
    /\ sc.api \/ Offered("continueToInfinite")
    /\ level < sc.maxLevel
    /\ \E seed \in sc.seeds : \E r \in {Mark(continueToInfinite(St, seed), "continueToInfinite", 0, 0)} :
           r.timers <= MaxTimers /\ Becomes(r)

RestartGame(sc) ==
    /\ sc.api \/ Offered("restartGame")
    /\ \E r \in {Mark(restartGame(St), "restartGame", 0, 0)} : Becomes(r)

MovePlayer(sc) ==
    /\ level \in sc.play
    /\ \E d \in Dirs : \E seed \in sc.seeds :
           \E r \in {Mark(movePlayer(St, d[1], d[2], seed), "movePlayer", d[1], d[2])} :
               r.regens <= sc.regens /\ r.movesSince <= sc.afterTick /\ Becomes(r)

\* One firing of a 1-second interval task: timer.update(t => t + 1).
TimerTick(sc) ==
    /\ timers > 0
    /\ level \in sc.timed
    /\ timer < sc.maxTimer
    /\ \E r \in {Mark([St EXCEPT !.timer = timer + 1], "timerTick", 0, 0)} : Becomes(r)

EnemyTick(sc) ==
    /\ enemyInterval
    /\ level \in sc.play
    /\ enemyTicks < sc.enemyTicks
    /\ Near(enemies \o stalkers, playerPosition, sc.aiRange)
    /\ \E seed \in sc.seeds : \E r \in {Mark(moveEnemies(St, seed), "moveEnemies", 0, 0)} :
           r.regens <= sc.regens /\ Becomes(r)

StalkerTick(sc) ==
    /\ stalkersInterval
    /\ level \in sc.play
    /\ stalkerTicks < sc.stalkerTicks
    /\ Near(enemies \o stalkers, playerPosition, sc.aiRange)
    /\ \E seed \in sc.seeds : \E r \in {Mark(moveStalkers(St, seed), "moveStalkers", 0, 0)} :
           r.regens <= sc.regens /\ Becomes(r)

NextLevelTimeout(sc) ==
    /\ nextLevelTimeout
    /\ \E seed \in sc.seeds : \E r \in {Mark(nextLevelCallback(St, seed), "nextLevelTimeout", 0, 0)} :
           r.timers <= MaxTimers /\ Becomes(r)

HitRecovery ==
    /\ hitTimeout
    /\ \E r \in {Mark(hitRecoveryCallback(St), "hitRecovery", 0, 0)} : Becomes(r)

\* The state after construction (the field initialisers of the class).
Init ==
    /\ level = 1 /\ score = 0 /\ timer = 0 /\ gameStatus = "start" /\ canTeleport = TRUE
    /\ maze = << >> /\ playerPosition = Pos(0, 0) /\ enemies = << >> /\ stalkers = << >>
    /\ playerHit = FALSE /\ regenerateIconPositions = << >> /\ teleporterPositions = << >>
    /\ startPosition = Pos(1, 1) /\ timers = 0 /\ timerInterval = FALSE
    /\ enemyInterval = FALSE /\ stalkersInterval = FALSE
    /\ nextLevelTimeout = FALSE /\ hitTimeout = FALSE
    /\ lastOp = [op |-> "init", dx |-> 0, dy |-> 0]
    /\ enemyTicks = 0 /\ stalkerTicks = 0 /\ regens = 0 /\ movesSince = 0

(***************************************************************************)
(* The first levels: start, moves, timer ticks, skips from level to level  *)
(* up to the level at which skipping is refused, level completion and the  *)
(* delayed advance.  No enemy, stalker, icon or teleporter exists at the   *)
(* levels played here, so no other action is ever enabled.                 *)
(***************************************************************************)
AllOps == {"startGame", "skipLevels", "continueToInfinite", "restartGame", "movePlayer",
           "timerTick", "moveEnemies", "moveStalkers", "nextLevelTimeout", "hitRecovery"}

ScFirst == [play |-> {1, 2}, timed |-> {1, 2, NoSkipLevel}, maxLevel |-> MaxSkipLevel, maxTimer |-> MaxTimer,
            enemyTicks |-> 0, stalkerTicks |-> 0, aiRange |-> 0, afterTick |-> 0, regens |-> 0,
            seeds |-> 1..NumSeeds, skipAfter |-> {"startGame", "skipLevels", "movePlayer"},
            api |-> FALSE]

Next ==
    \/ StartGame(ScFirst)
    \/ SkipLevels(ScFirst)
    \/ MovePlayer(ScFirst)
    \/ TimerTick(ScFirst)
    \/ NextLevelTimeout(ScFirst)

Spec == Init /\ [][Next]_vars

\* A pending timeout does not stay pending for ever: the event loop runs its callback
\* after the delay unless clearTimeout cancels it first.
AdvanceDue == nextLevelTimeout /\ nextLevelTimeout' = FALSE

FairSpec == Spec /\ WF_nextLevelTimeout(AdvanceDue)

(***************************************************************************)
(* The score: levels 1 and 2, the timer of level 1 ticked past the 100     *)
(* seconds after which the time bonus is 0.                                *)
(***************************************************************************)
ScScore == [play |-> {1, 2}, timed |-> {1}, maxLevel |-> 2, maxTimer |-> MaxScoreTimer,
            enemyTicks |-> 0, stalkerTicks |-> 0, aiRange |-> 0, afterTick |-> 0, regens |-> 0,
            seeds |-> 1..NumSeeds, skipAfter |-> {"startGame"}, api |-> FALSE]

NextScore ==
    \/ StartGame(ScScore)
    \/ SkipLevels(ScScore)
    \/ MovePlayer(ScScore)
    \/ TimerTick(ScScore)
    \/ NextLevelTimeout(ScScore)

SpecScore == Init /\ [][NextScore]_vars

(***************************************************************************)
(* Regeneration: level 10, the first level with regenerate icons, reached  *)
(* by skipping; one regeneration per load of the level.  With the draws of *)
(* seed 18 an icon stands on (16,12), a cell the wall-removal pass opened; *)
(* the draws of seed 74 give a maze with walls on the four sides of that   *)
(* cell.                                                                   *)
(***************************************************************************)
RegenSeeds == {18, 74}

ScRegen == [play |-> {RegenLevel}, timed |-> {}, maxLevel |-> RegenLevel, maxTimer |-> 0,
            enemyTicks |-> 0, stalkerTicks |-> 0, aiRange |-> 0, afterTick |-> MaxAfterTick,
            regens |-> MaxRegens,
            seeds |-> RegenSeeds, skipAfter |-> {"startGame", "skipLevels"}, api |-> FALSE]

NextRegen ==
    \/ StartGame(ScRegen)
    \/ SkipLevels(ScRegen)
    \/ MovePlayer(ScRegen)
    \/ NextLevelTimeout(ScRegen)

SpecRegen == Init /\ [][NextRegen]_vars

(***************************************************************************)
(* Enemy collisions: level 15, the first level with an enemy, reached by   *)
(* skipping.  Enemy ticks are explored while the enemy is close to the     *)
(* player, one tick, one cell and one move further than at level 25.       *)
(* Moves onto regenerate icons are left out.                               *)
(***************************************************************************)
EnemySeeds == {1}

ScEnemy == [play |-> {EnemyLevel}, timed |-> {}, maxLevel |-> EnemyLevel, maxTimer |-> 0,
            enemyTicks |-> MaxEnemyTicks + 1, stalkerTicks |-> 0, aiRange |-> AiRange + 1,
            afterTick |-> MaxAfterTick + 1, regens |-> 0,
            seeds |-> EnemySeeds, skipAfter |-> {"startGame", "skipLevels"}, api |-> FALSE]

NextEnemy ==
    \/ StartGame(ScEnemy)
    \/ SkipLevels(ScEnemy)
    \/ MovePlayer(ScEnemy)
    \/ EnemyTick(ScEnemy)
    \/ HitRecovery
    \/ NextLevelTimeout(ScEnemy)

SpecEnemy == Init /\ [][NextEnemy]_vars

\* The 400 ms timeout of the enemy branch is never cleared: its callback runs.
RecoveryDue == hitTimeout /\ hitTimeout' = FALSE

FairSpecEnemy == SpecEnemy /\ WF_hitTimeout(RecoveryDue)

(***************************************************************************)
(* Enemy collisions followed by a skip: as above, and the user skips level *)
(* 15 while the hit recovery is pending.                                   *)
(***************************************************************************)
ScSkipHit == [ScEnemy EXCEPT !.maxLevel = EnemyLevel + 1, !.skipAfter = AllOps]

(***************************************************************************)
(* Enemies on their way: the player stays on Start at the levels           *)
(* EnemyLevel..MaxWanderLevel and the enemy ticker fires up to             *)
(* MaxWanderTicks times, wherever the enemies are.                         *)
(***************************************************************************)
WanderSeeds == {1, 2}

ScWander == [play |-> EnemyLevel..MaxWanderLevel, timed |-> {}, maxLevel |-> MaxWanderLevel,
             maxTimer |-> 0, enemyTicks |-> MaxWanderTicks, stalkerTicks |-> 0,
             aiRange |-> 2 * MazeSize(MaxWanderLevel), afterTick |-> 0, regens |-> 0,
             seeds |-> WanderSeeds, skipAfter |-> {"startGame", "skipLevels"}, api |-> FALSE]

NextWander ==
    \/ StartGame(ScWander)
    \/ SkipLevels(ScWander)
    \/ EnemyTick(ScWander)

SpecWander == Init /\ [][NextWander]_vars

\* skipLevels called while the recovery from a hit is pending.
SkipWhileHit == playerHit /\ SkipLevels(ScSkipHit)

NextSkipHit ==
    \/ StartGame(ScEnemy)
    \/ SkipLevels(ScEnemy)
    \/ MovePlayer(ScEnemy)
    \/ EnemyTick(ScEnemy)
    \/ HitRecovery
    \/ NextLevelTimeout(ScEnemy)
    \/ SkipWhileHit

SpecSkipHit == Init /\ [][NextSkipHit]_vars

(***************************************************************************)
(* checkGameState on a teleporter, with the teleporter sequence cut to any *)
(* of its prefixes: a prefix of odd length leaves its last teleporter      *)
(* without a paired index.  The levels TeleporterLevel..MaxPairlessLevel   *)
(* are reached by skipping; spawnTeleporters itself places an even number. *)
(***************************************************************************)
PairlessSeeds == {1, 2}

ScPairless == [play |-> TeleporterLevel..MaxPairlessLevel, timed |-> {}, maxLevel |-> MaxPairlessLevel,
               maxTimer |-> 0, enemyTicks |-> 0, stalkerTicks |-> 0, aiRange |-> 0, afterTick |-> 0,
               regens |-> 0, seeds |-> PairlessSeeds, skipAfter |-> {"startGame", "skipLevels"},
               api |-> FALSE]

\* checkGameState with the player on teleporter i of the first n teleporters;
\* lastOp keeps i in dx and n in dy.
CheckGameStateOnTeleporter ==
    /\ lastOp.op \in {"startGame", "skipLevels"}
    /\ level \in ScPairless.play
    /\ \E n \in 1..Len(teleporterPositions) : \E i \in 1..n : \E seed \in ScPairless.seeds :
           \E r \in {Mark(checkGameState([St EXCEPT !.teleporterPositions = SubSeq(teleporterPositions, 1, n),
                                                   !.playerPosition = teleporterPositions[i]],
                                          seed),
                           "checkGameState", i, n)} :
               Becomes(r)

NextPairless ==
    \/ StartGame(ScPairless)
    \/ SkipLevels(ScPairless)
    \/ CheckGameStateOnTeleporter

SpecPairless == Init /\ [][NextPairless]_vars

(***************************************************************************)
(* Stalkers and teleporters: level 25, the first level with a stalker,     *)
(* reached by skipping.  With the draws of seed 679 the stalker spawns on  *)
(* the teleporter cell (9,51), whose partner is (16,7), and an enemy on    *)
(* the teleporter cell (49,22), whose partner is (20,23).  Ticks are       *)
(* explored while an entity of their kind is close to the player.          *)
(***************************************************************************)
StalkerSeeds == {679}

ScStalker == [play |-> {StalkerLevel}, timed |-> {}, maxLevel |-> StalkerLevel, maxTimer |-> 0,
              enemyTicks |-> MaxEnemyTicks, stalkerTicks |-> MaxStalkerTicks, aiRange |-> AiRange,
              afterTick |-> MaxAfterTick,
              regens |-> MaxRegens, seeds |-> StalkerSeeds,
              skipAfter |-> {"startGame", "skipLevels"}, api |-> FALSE]

NextStalker ==
    \/ StartGame(ScStalker)
    \/ SkipLevels(ScStalker)
    \/ MovePlayer(ScStalker)
    \/ EnemyTick(ScStalker)
    \/ StalkerTick(ScStalker)
    \/ HitRecovery
    \/ NextLevelTimeout(ScStalker)
    \/ RestartGame(ScStalker)

SpecStalker == Init /\ [][NextStalker]_vars

(***************************************************************************)
(* The end of the game: levels 29, 30 and 31.  Level 29 is reached by      *)
(* skipping, level 30 by completing level 29, level 31 by continuing after *)
(* the game is complete or by skipping at the start of level 30; the level *)
(* after 31 is loaded and not played.                                      *)
(* With the draws of seed 2 the Exit of each of the three levels can be    *)
(* reached without stepping on an icon.  No AI tick and no regeneration is *)
(* explored here.                                                          *)
(***************************************************************************)
EndSeeds == {2}

ScEnd == [play |-> {NoSkipLevel, FinalLevel, FinalLevel + 1}, timed |-> {},
          maxLevel |-> FinalLevel + 1, maxTimer |-> 0,
          enemyTicks |-> 0, stalkerTicks |-> 0, aiRange |-> 0, afterTick |-> 0,
          regens |-> 0, seeds |-> EndSeeds,
          skipAfter |-> {"startGame", "skipLevels", "nextLevelTimeout"}, api |-> FALSE]

NextEnd ==
    \/ StartGame(ScEnd)
    \/ SkipLevels(ScEnd)
    \/ MovePlayer(ScEnd)
    \/ HitRecovery
    \/ NextLevelTimeout(ScEnd)
    \/ ContinueToInfinite(ScEnd)
    \/ RestartGame(ScEnd)

SpecEnd == Init /\ [][NextEnd]_vars

(***************************************************************************)
(* The pursuit: level 25 with stalker ticks while the player stands still  *)
(* (right after the level was loaded, after a regeneration, after a tick)  *)
(* or has a stalker next to or on its cell.  With the draws of seed 5060  *)
(* an icon stands on (18,8) and the teleporter at (11,2) leads onto the    *)
(* stalker's cell (34,27); the maze of seed 141 has walls on the four      *)
(* sides of (18,8), so a regeneration there leaves no path to the player.  *)
(***************************************************************************)
ChaseSeeds == {141, 5060}

ScChase == [play |-> {StalkerLevel}, timed |-> {}, maxLevel |-> StalkerLevel, maxTimer |-> 0,
            enemyTicks |-> 0, stalkerTicks |-> MaxChaseTicks, aiRange |-> AiRange,
            afterTick |-> 0, regens |-> MaxRegens, seeds |-> ChaseSeeds,
            skipAfter |-> {"startGame", "skipLevels"}, api |-> FALSE]

\* One firing of the stalker ticker.
ChaseTick ==
    /\ stalkersInterval
    /\ level \in ScChase.play
    /\ stalkerTicks < ScChase.stalkerTicks
    /\ \/ lastOp.op \in {"skipLevels", "moveStalkers"}
       \/ regens > 0
       \/ Near(stalkers, playerPosition, ScChase.aiRange)
    /\ \E seed \in ScChase.seeds : \E r \in {Mark(moveStalkers(St, seed), "moveStalkers", 0, 0)} :
           Becomes(r)

NextChase ==
    \/ StartGame(ScChase)
    \/ SkipLevels(ScChase)
    \/ MovePlayer(ScChase)
    \/ ChaseTick
    \/ HitRecovery
    \/ NextLevelTimeout(ScChase)
    \/ RestartGame(ScChase)

SpecChase == Init /\ [][NextChase]_vars

(***************************************************************************)
(* The public operations called in any status: startGame, skipLevels,      *)
(* continueToInfinite, restartGame and movePlayer are public methods of    *)
(* the component and none of them but skipLevels and movePlayer looks at   *)
(* the status.  Levels 1 and 2, with timer ticks.                          *)
(***************************************************************************)
ScApi == [play |-> {1, 2}, timed |-> {1, 2}, maxLevel |-> 2, maxTimer |-> MaxTimer,
          enemyTicks |-> 0, stalkerTicks |-> 0, aiRange |-> 0, afterTick |-> 0,
          regens |-> 0, seeds |-> {1}, skipAfter |-> AllOps, api |-> TRUE]

NextApi ==
    \/ StartGame(ScApi)
    \/ SkipLevels(ScApi)
    \/ ContinueToInfinite(ScApi)
    \/ RestartGame(ScApi)
    \/ MovePlayer(ScApi)
    \/ TimerTick(ScApi)
    \/ NextLevelTimeout(ScApi)

SpecApi == Init /\ [][NextApi]_vars

(***************************************************************************)
(* generateMaze on its own: the level and the seed are drawn from bounded  *)
(* sets and the generator is applied once.                                 *)
(***************************************************************************)
GenInit ==
    /\ level \in 1..MaxGenLevel
    /\ score = 0 /\ timer = 0 /\ gameStatus = "start" /\ canTeleport = TRUE
    /\ maze = << >> /\ playerPosition = Pos(0, 0) /\ enemies = << >> /\ stalkers = << >>
    /\ playerHit = FALSE /\ regenerateIconPositions = << >> /\ teleporterPositions = << >>
    /\ startPosition = Pos(1, 1) /\ timers = 0 /\ timerInterval = FALSE
    /\ enemyInterval = FALSE /\ stalkersInterval = FALSE
    /\ nextLevelTimeout = FALSE /\ hitTimeout = FALSE
    /\ lastOp = [op |-> "init", dx |-> 0, dy |-> 0]
    /\ enemyTicks = 0 /\ stalkerTicks = 0 /\ regens = 0 /\ movesSince = 0

\* maze' is the grid generateMaze(level) returns for the draws of the seed.
Generate ==
    /\ lastOp.op = "init"
    /\ \E seed \in 1..NumGenSeeds :
           /\ maze' = generateMaze(level, seed)
           /\ lastOp' = [op |-> "generateMaze", dx |-> seed, dy |-> 0]
    /\ UNCHANGED << level, score, timer, gameStatus, canTeleport, playerPosition, enemies,
                    stalkers, playerHit, regenerateIconPositions, teleporterPositions,
                    startPosition, timers, timerInterval, enemyInterval, stalkersInterval,
                    nextLevelTimeout, hitTimeout, enemyTicks, stalkerTicks, regens,
                    movesSince >>

SpecGen == GenInit /\ [][Generate]_vars

(***************************************************************************)
(* loadLevel and the regeneration on their own: the level is drawn from    *)
(* 1..MaxGenLevel, loadLevel is applied once, then the player is put on    *)
(* one of the icons placed and the resolver's icon branch is applied.      *)
(***************************************************************************)
LoadLevel ==
    /\ lastOp.op = "init"
    /\ \E seed \in 1..NumSeeds : \E r \in {Mark(loadLevel(St, level, seed), "loadLevel", 0, 0)} :
           Becomes(r)

RegenerateAt ==
    /\ lastOp.op = "loadLevel"
    /\ \E i \in 1..Min(MaxPlaceIcons, Len(regenerateIconPositions)) : \E seed \in 1..NumRegenSeeds :
           \E r \in {Mark(regenerateMazeFromPlayerPosition(
                              [St EXCEPT !.playerPosition = regenerateIconPositions[i]], seed),
                          "regenerate", 0, 0)} :
               Becomes(r)

NextPlace == LoadLevel \/ RegenerateAt

SpecPlace == GenInit /\ [][NextPlace]_vars

\* C1: for every level and every outcome of the random choices, the grid that
\* generateMaze returns has Start at (1,1) and Exit at (size-2,size-2), and a
\* chain of cardinally adjacent non-wall cells leads from Start to Exit.
C1_StartExitConnected ==
    lastOp.op = "generateMaze" =>
        LET size == Len(maze)
        IN  /\ Get(maze, 1, 1) = "S"
            /\ Get(maze, size - 2, size - 2) = "E"
            /\ Connected(maze, Pos(1, 1), Pos(size - 2, size - 2))

\* A grid of the largest size has been generated and its Exit is connected to Start.
C1_Witness ==
    /\ lastOp.op = "generateMaze"
    /\ level >= SizeCapLevel
    /\ Len(maze) = MazeSize(SizeCapLevel)
    /\ Connected(maze, Pos(1, 1), Pos(Len(maze) - 2, Len(maze) - 2))

(***************************************************************************)
(* Predicates shared by the properties below.                              *)
(***************************************************************************)
\* No interval task is active: the timer, the enemy ticker, the stalker ticker.
AllStopped == ~timerInterval /\ timers = 0 /\ ~enemyInterval /\ ~stalkersInterval

\* A level has just been loaded: a grid of the level's size, the player on its Start.
FreshlyLoaded ==
    /\ Len(maze) = MazeSize(level)
    /\ playerPosition = startPosition
    /\ Get(maze, playerPosition.x, playerPosition.y) = "S"
    /\ timer = 0

\* The cell a move by (lastOp'.dx, lastOp'.dy) leads to, and whether the move is valid.
Target == Pos(playerPosition.x + lastOp'.dx, playerPosition.y + lastOp'.dy)

ValidMove ==
    /\ lastOp'.op = "movePlayer"
    /\ gameStatus = "playing" /\ ~playerHit
    /\ InBounds(maze, Target.x, Target.y)
    /\ Get(maze, Target.x, Target.y) # "W"

(***************************************************************************)
(* C8.                                                                     *)
(***************************************************************************)
\* C8: skipLevels leaves level, grid, player position, entity sets, score and status
\* unchanged when status is not playing or when level is 29; when status is playing
\* and level is not 29 it increases level by exactly 1, loads that level, and leaves
\* status playing and score unchanged.
C8_SkipLevels ==
    [][lastOp'.op = "skipLevels" =>
         IF gameStatus # "playing" \/ level = NoSkipLevel
         THEN UNCHANGED << level, maze, playerPosition, enemies, stalkers,
                           regenerateIconPositions, teleporterPositions, score, gameStatus >>
         ELSE /\ level' = level + 1
              /\ FreshlyLoaded'
              /\ gameStatus' = "playing"
              /\ score' = score]_vars

\* skipLevels was called at level 29 while playing, some seconds into the level (a skip
\* that loads a level leaves the timer at 0), and level 29 was reached by skipping.
C8_Witness ==
    /\ lastOp.op = "skipLevels"
    /\ gameStatus = "playing"
    /\ level = NoSkipLevel
    /\ timer > 0

(***************************************************************************)
(* C6.                                                                     *)
(***************************************************************************)
\* The player reaches the Exit in this step: a valid move onto the "E" cell that no
\* interaction of higher priority (stalker, teleporter, regenerate icon) intercepts.
ReachesExit ==
    /\ ValidMove
    /\ Get(maze, Target.x, Target.y) = "E"
    /\ ~Contains(stalkers, Target)
    /\ ~Contains(teleporterPositions, Target)
    /\ ~Contains(regenerateIconPositions, Target)

\* Reaching the Exit below level 30 gives level-complete, stops the timer and both AI
\* tickers and leaves the delayed advance pending.
C6_Completes ==
    [][(ReachesExit /\ level < FinalLevel) =>
           (gameStatus' = "level-complete" /\ AllStopped' /\ nextLevelTimeout')]_vars

\* The delayed advance fires only from level-complete, leaves no advance pending, and
\* yields playing at level + 1 on a newly loaded grid with timer and enemy ticker running.
C6_Advances ==
    [][lastOp'.op = "nextLevelTimeout" =>
           /\ gameStatus = "level-complete" /\ nextLevelTimeout /\ ~nextLevelTimeout'
           /\ gameStatus' = "playing"
           /\ level' = level + 1
           /\ FreshlyLoaded'
           /\ timerInterval' /\ timers' = 1 /\ enemyInterval']_vars

\* Once the level is complete, the advance eventually fires.
C6_Fires ==
    \A L \in ScFirst.play :
        (gameStatus = "level-complete" /\ level = L)
            ~> (lastOp.op = "nextLevelTimeout" /\ gameStatus = "playing" /\ level = L + 1)

C5_ExitScore ==
    [][ReachesExit =>
           /\ score' - score = (IF 1000 - 10 * timer > 0 THEN 1000 - 10 * timer ELSE 0) + 500 * level
           /\ timer >= 100 => score' - score = 500 * level
           /\ gameStatus' \in {"level-complete", "game-complete"}]_vars

\* The Exit of level 1 was reached after 100 seconds or more, straight from the start
\* of the game: the score is the level bonus alone.
C5_Witness ==
    /\ lastOp.op = "movePlayer"
    /\ gameStatus = "level-complete"
    /\ level = 1
    /\ timer >= 100
    /\ score = 500

(***************************************************************************)
(* C2 and C10.                                                             *)
(***************************************************************************)
ExitCell == Pos(Len(maze) - 2, Len(maze) - 2)

\* The grid was regenerated and the player stands where the regeneration put the Start.
JustRegenerated == regens > 0 /\ gameStatus = "playing" /\ playerPosition = startPosition

\* C2: after any maze regeneration, the player's current cell is connected to the new
\* grid's Exit by a chain of cardinally adjacent non-wall cells.
C2_PlayerReachesExit ==
    JustRegenerated => Connected(maze, playerPosition, ExitCell)

\* C10: after a regeneration triggered with the player at (px,py), the new grid has its
\* Start cell at (px,py) and at no other cell (so (1,1) is Path unless it is (px,py)),
\* the recorded Start position equals (px,py), and the player position is unchanged.
C10_StartAtPlayer ==
    [][regens' = regens + 1 =>
           /\ lastOp'.op = "movePlayer" => playerPosition' = Target
           /\ startPosition' = playerPosition'
           /\ \A y \in 0..(Len(maze') - 1) : \A x \in 0..(Len(maze') - 1) :
                  Get(maze', x, y) = "S" <=> Pos(x, y) = playerPosition'
           /\ playerPosition' # Pos(1, 1) => Get(maze', 1, 1) = " "]_vars

\* A regeneration has happened away from (1,1): the Start is under the player.
C10_Witness ==
    /\ JustRegenerated
    /\ lastOp.op = "movePlayer"
    /\ playerPosition # Pos(1, 1)
    /\ Get(maze, playerPosition.x, playerPosition.y) = "S"

(***************************************************************************)
(* C9.                                                                     *)
(***************************************************************************)
\* While player-hit is set, movePlayer changes nothing.
C9_MovesIgnored == [][(playerHit /\ lastOp'.op = "movePlayer") => UNCHANGED gameVars]_vars

\* An enemy collision sets player-hit together with the pending recovery, and only the
\* recovery clears it.
C9_HitPending ==
    [][/\ (~playerHit /\ playerHit') => (hitTimeout' /\ Contains(enemies', playerPosition'))
       /\ (playerHit /\ ~playerHit') => lastOp'.op = "hitRecovery"]_vars

\* Right after the recovery fires the player is on the Start of the current level and
\* player-hit is false.
C9_Recovered ==
    [][lastOp'.op = "hitRecovery" =>
           /\ playerPosition' = startPosition'
           /\ Get(maze', playerPosition'.x, playerPosition'.y) = "S"
           /\ ~playerHit']_vars

\* C9: whenever an enemy collision sets player-hit to true, movePlayer changes nothing
\* until the recovery fires, the delayed hit-recovery eventually fires, and in the state
\* right after it fires the player position equals the current level's Start position
\* and player-hit is false.
C9_HitRecovery ==
    /\ C9_MovesIgnored
    /\ C9_HitPending
    /\ C9_Recovered
    /\ playerHit ~> (lastOp.op = "hitRecovery" /\ ~playerHit /\ playerPosition = startPosition)

\* The recovery has fired after a collision: the player is back on the Start.
C9_Witness ==
    /\ lastOp.op = "hitRecovery"
    /\ gameStatus = "playing"
    /\ ~playerHit /\ ~hitTimeout
    /\ playerPosition = startPosition
    /\ enemies # << >>

(***************************************************************************)
(* C3 and C4.                                                              *)
(***************************************************************************)
\* The teleporter paired with the one at index i (1-based) of teleporterPositions.
Partner(i) == IF i % 2 = 1 THEN i + 1 ELSE i - 1

\* What a step leaves alone when the interaction resolved touches nothing but the player.
Untouched == << level, score, gameStatus, maze, enemies, stalkers, regenerateIconPositions,
                teleporterPositions, startPosition, playerHit, hitTimeout, nextLevelTimeout,
                timers, timerInterval, enemyInterval, stalkersInterval >>

\* C3: after a valid player move, the interactions at the player's cell are resolved in
\* the fixed order stalker collision > teleporter > regenerate icon > Exit > enemy
\* collision, and only the first matching one takes effect in that step: a stalker on
\* the cell yields game-over with no score change, whatever else is on it; a teleport
\* performs no stalker, regenerate, exit or enemy check on the destination; an icon
\* regenerates without completing the level or setting player-hit; the Exit completes
\* the level without setting player-hit, an enemy on it or not.
C3_PriorityOrder ==
    [][ValidMove =>
           LET i == IndexOf(teleporterPositions, Target)
           IN  IF Contains(stalkers, Target)
               THEN /\ gameStatus' = "game-over"
                    /\ playerPosition' = Target
                    /\ UNCHANGED << level, score, maze, enemies, stalkers, regenerateIconPositions,
                                    teleporterPositions, startPosition, playerHit, hitTimeout,
                                    nextLevelTimeout, canTeleport >>
               ELSE IF i # 0 /\ canTeleport /\ Partner(i) \in 1..Len(teleporterPositions)
               THEN /\ playerPosition' = teleporterPositions[Partner(i)]
                    /\ ~canTeleport'
                    /\ UNCHANGED Untouched
               ELSE IF Contains(regenerateIconPositions, Target)
               THEN /\ regens' = regens + 1
                    /\ playerPosition' = Target
                    /\ startPosition' = Target
                    /\ UNCHANGED << level, score, gameStatus, playerHit, hitTimeout, nextLevelTimeout,
                                    timers, timerInterval, enemyInterval, stalkersInterval >>
               ELSE IF Get(maze, Target.x, Target.y) = "E"
               THEN /\ gameStatus' \in {"level-complete", "game-complete"}
                    /\ score' > score
                    /\ playerPosition' = Target
                    /\ UNCHANGED << level, maze, enemies, stalkers, regenerateIconPositions,
                                    teleporterPositions, startPosition, playerHit, hitTimeout >>
               ELSE IF Contains(enemies, Target)
               THEN /\ playerHit' /\ hitTimeout'
                    /\ playerPosition' = Target
                    /\ UNCHANGED << level, score, gameStatus, maze, enemies, stalkers,
                                    regenerateIconPositions, teleporterPositions, startPosition,
                                    nextLevelTimeout, timers, timerInterval, enemyInterval,
                                    stalkersInterval >>
               ELSE /\ playerPosition' = Target
                    /\ UNCHANGED Untouched]_vars

\* The player has stepped on a teleporter and stands on its partner, a cell on which a
\* stalker is: the game goes on.
C3_Witness ==
    /\ lastOp.op = "movePlayer"
    /\ gameStatus = "playing"
    /\ ~canTeleport
    /\ Contains(teleporterPositions, playerPosition)
    /\ Contains(stalkers, playerPosition)
    /\ ~playerHit

\* The cell on which the interactions of this step are resolved has a stalker on it:
\* the cell a valid move leads to (before any teleport), or the player's cell at the end
\* of an AI tick.
StalkerAtResolvedCell ==
    \/ ValidMove /\ Contains(stalkers, Target)
    \/ lastOp'.op = "moveEnemies" /\ Contains(stalkers, playerPosition)
    \/ lastOp'.op = "moveStalkers" /\ Contains(stalkers', playerPosition)

\* C4 as amended: whenever a valid player move, an enemy tick or a stalker tick is
\* resolved while status is playing and player-hit is false, and some stalker occupies
\* the cell resolved (for a move the cell moved to, before any teleport), that same step
\* sets status to game-over and stops the timer, the enemy ticker and the stalker ticker.
C4_StalkerCatches ==
    [][(gameStatus = "playing" /\ ~playerHit /\ StalkerAtResolvedCell)
           => (gameStatus' = "game-over" /\ AllStopped')]_vars

\* C4 as stated: whenever a player move, an enemy tick or a stalker tick completes while
\* status is playing and some stalker occupies the player's cell, that same step sets
\* status to game-over and stops the timer, the enemy ticker and the stalker ticker.
C4_StalkerOnPlayerCell ==
    [][(/\ gameStatus = "playing"
        /\ lastOp'.op \in {"movePlayer", "moveEnemies", "moveStalkers"}
        /\ Contains(stalkers', playerPosition'))
           => (gameStatus' = "game-over" /\ AllStopped')]_vars

\* A stalker tick has brought a stalker onto the player's cell: the game is over and
\* nothing runs.
C4_Witness ==
    /\ lastOp.op = "moveStalkers"
    /\ gameStatus = "game-over"
    /\ Contains(stalkers, playerPosition)
    /\ stalkerTicks > 0
    /\ AllStopped

(***************************************************************************)
(* C7.                                                                     *)
(***************************************************************************)
\* C7: status becomes game-complete exactly when the player reaches the Exit at level
\* 30: at level 30 reaching the Exit sets game-complete (never level-complete) and stops
\* the timer and both AI tickers, and at every other level (below 30 or above 30 in
\* infinite mode) game-complete is never entered.
C7_GameComplete ==
    [][/\ (ReachesExit /\ level = FinalLevel)
              => (gameStatus' = "game-complete" /\ AllStopped' /\ ~nextLevelTimeout')
       /\ (gameStatus # "game-complete" /\ gameStatus' = "game-complete")
              => (ReachesExit /\ level = FinalLevel /\ level' = FinalLevel)
       /\ (ReachesExit /\ level # FinalLevel) => gameStatus' = "level-complete"
       /\ gameStatus' = "level-complete" => level' # FinalLevel]_vars

\* The Exit of level 30 has been reached, after that of level 29: the game is complete
\* and nothing runs.
C7_Witness ==
    /\ lastOp.op = "movePlayer"
    /\ gameStatus = "game-complete"
    /\ level = FinalLevel
    /\ playerPosition = ExitCell
    /\ score > 0
    /\ AllStopped /\ ~nextLevelTimeout

(***************************************************************************)
(* C11.                                                                    *)
(***************************************************************************)
\* The entity sets have just been placed, by a level load or by a regeneration.
JustPlaced == lastOp.op \in {"loadLevel", "regenerate"}

\* Every position of seq is a Path cell of the current grid.
OnPath(seq) == \A i \in 1..Len(seq) : Get(maze, seq[i].x, seq[i].y) = " "

\* C11: for each kind (enemies, regenerate icons, teleporters, stalkers), after every
\* level load and regeneration the set is empty when level is below the kind's unlock
\* level (15, 10, 20, 25); otherwise every placed position is a Path cell of the current
\* grid and the number placed never exceeds the kind's count (enemies
\* min(4, floor((level-15)/2)+1), icons 5, teleporters min(14, 2+2*floor((level-20)/4)),
\* stalkers 1), with level 15 giving exactly 1 enemy.
C11_Placement ==
    JustPlaced =>
        /\ IF level < 15 THEN enemies = << >>
           ELSE /\ OnPath(enemies)
                /\ Len(enemies) <= (IF (level - 15) \div 2 + 1 < 4 THEN (level - 15) \div 2 + 1 ELSE 4)
        /\ level = 15 => Len(enemies) = 1
        /\ IF level < 10 THEN regenerateIconPositions = << >>
           ELSE OnPath(regenerateIconPositions) /\ Len(regenerateIconPositions) <= 5
        /\ IF level < 20 THEN teleporterPositions = << >>
           ELSE /\ OnPath(teleporterPositions)
                /\ Len(teleporterPositions)
                       <= (IF 2 + 2 * ((level - 20) \div 4) < 14 THEN 2 + 2 * ((level - 20) \div 4) ELSE 14)
        /\ IF level < 25 THEN stalkers = << >>
           ELSE OnPath(stalkers) /\ Len(stalkers) <= 1

\* A regeneration at a level with all four kinds has placed the most enemies a level
\* can have, a stalker, teleporters and icons.
C11_Witness ==
    /\ lastOp.op = "regenerate"
    /\ level >= 25
    /\ Len(enemies) = 4 /\ Len(stalkers) = 1
    /\ Len(teleporterPositions) >= 4
    /\ Len(regenerateIconPositions) \in {4, 5}

(***************************************************************************)
(* C12.                                                                    *)
(***************************************************************************)
\* C12: in every reachable state, after any level load or regeneration at any level,
\* the teleporter position sequence has even length, so every teleporter index has a
\* paired index inside the sequence.
C12_EvenTeleporters ==
    /\ Len(teleporterPositions) % 2 = 0
    /\ \A i \in 1..Len(teleporterPositions) : Partner(i) \in 1..Len(teleporterPositions)

\* A regeneration at a level with more than one pair has placed its teleporters.
C12_Witness ==
    /\ lastOp.op = "regenerate"
    /\ level >= 24
    /\ Len(teleporterPositions) >= 4
    /\ Len(teleporterPositions) % 2 = 0

(***************************************************************************)
(* C13.                                                                    *)
(***************************************************************************)
\* The index (0-based, as in the source) a teleport from index i leads to.
PairedIndex(i) == IF i % 2 = 0 THEN i + 1 ELSE i - 1

\* C13: when the player moves onto the teleporter at index i with can-teleport true and
\* no stalker on that cell, the step ends with the player at the position of index i+1
\* if i is even and of index i-1 if i is odd, with can-teleport false; the teleporter
\* the player then stands on is the one whose own destination is index i, so entering
\* it later returns the player to the original end.
C13_Teleport ==
    [][(/\ ValidMove
        /\ Contains(teleporterPositions, Target)
        /\ canTeleport
        /\ ~Contains(stalkers, Target))
           => LET i == IndexOf(teleporterPositions, Target) - 1
                  j == IndexOf(teleporterPositions', playerPosition') - 1
              IN  /\ playerPosition' = teleporterPositions[PairedIndex(i) + 1]
                  /\ ~canTeleport'
                  /\ teleporterPositions' = teleporterPositions
                  /\ j = PairedIndex(i)
                  /\ teleporterPositions'[PairedIndex(j) + 1] = Target]_vars

\* The player has stepped on a teleporter of odd index and stands on the one of the even
\* index before it.
C13_Witness ==
    /\ lastOp.op = "movePlayer"
    /\ gameStatus = "playing"
    /\ ~canTeleport
    /\ \E i \in 1..Len(teleporterPositions) :
           /\ (i - 1) % 2 = 0
           /\ playerPosition = teleporterPositions[i]
           /\ ~Contains(stalkers, teleporterPositions[i + 1])

(***************************************************************************)
(* C14.                                                                    *)
(***************************************************************************)
\* The number of cells of a shortest chain of non-wall cells from the player to c.
FromPlayer(c) == Bfs(maze, playerPosition, c)

\* C14: on a stalker tick, each stalker with no chain of non-wall cells to the player's
\* cell keeps its position; each stalker that has such a path moves to a cardinally
\* adjacent non-wall cell whose shortest-path distance to the player is exactly one less
\* than before, and a stalker already on the player's cell stays.
C14_Pursuit ==
    [][lastOp'.op = "moveStalkers" =>
           /\ Len(stalkers') = Len(stalkers)
           /\ \A i \in 1..Len(stalkers) :
                  \E b \in {FromPlayer(stalkers[i])} :
                      IF ~b.found \/ stalkers[i] = playerPosition
                      THEN stalkers'[i] = stalkers[i]
                      ELSE /\ Dist(stalkers'[i], stalkers[i]) = 1
                           /\ Get(maze, stalkers'[i].x, stalkers'[i].y) # "W"
                           /\ \E b2 \in {FromPlayer(stalkers'[i])} :
                                  b2.found /\ b2.foundPath.len = b.foundPath.len - 1]_vars

\* After a regeneration that walled the player in, a stalker tick has left the stalker
\* where it spawned.
C14_Witness ==
    /\ lastOp.op = "moveStalkers"
    /\ regens > 0
    /\ stalkerTicks > 0
    /\ stalkers # << >>
    /\ ~Connected(maze, stalkers[1], playerPosition)

\* A stalker tick has come with the stalker already on the player's cell, where a
\* teleporter had put the player: the stalker has stayed and the game is over.
C14_OnPlayerWitness ==
    /\ lastOp.op = "moveStalkers"
    /\ gameStatus = "game-over"
    /\ ~canTeleport
    /\ Contains(teleporterPositions, playerPosition)
    /\ Contains(stalkers, playerPosition)

(***************************************************************************)
(* C15.                                                                    *)
(***************************************************************************)
\* C15: movePlayer changes no state at all (player position, can-teleport, status,
\* score, level, grid, entity sets, nor any timer or pending task) when status is not
\* playing, when player-hit is true, or when the target cell is out of bounds or a Wall.
C15_InvalidMoveIgnored ==
    [][(lastOp'.op = "movePlayer" /\ ~ValidMove)
           => UNCHANGED gameVars]_vars

\* A move was tried against a wall while playing: the player has walls on both sides
\* along the direction of the move, so it did not arrive by that move, and it stands
\* neither on a teleporter nor on the Start.
C15_Witness ==
    /\ lastOp.op = "movePlayer"
    /\ gameStatus = "playing" /\ ~playerHit
    /\ Get(maze, playerPosition.x + lastOp.dx, playerPosition.y + lastOp.dy) = "W"
    /\ Get(maze, playerPosition.x - lastOp.dx, playerPosition.y - lastOp.dy) = "W"
    /\ ~Contains(teleporterPositions, playerPosition)
    /\ playerPosition # startPosition
    /\ stalkers # << >>

(***************************************************************************)
(* C16.                                                                    *)
(***************************************************************************)
\* C16: for every level L >= 1 the generated grid is square with side
\* 7 + 2*(min(L,30)-1), which is odd and at least 7; for every level above 30 the side
\* equals the level-30 side.
C16_GridSize ==
    lastOp.op = "generateMaze" =>
        LET side == 7 + 2 * ((IF level < 30 THEN level ELSE 30) - 1)
        IN  /\ Len(maze) = side
            /\ \A y \in 1..Len(maze) : Len(maze[y]) = side
            /\ side % 2 = 1 /\ side >= 7
            /\ level > 30 => Len(maze) = 7 + 2 * 29

\* A grid has been generated for a level above 30: its side is that of level 30.
C16_Witness ==
    /\ lastOp.op = "generateMaze"
    /\ level > 30
    /\ Len(maze) = 65
    /\ Len(maze[65]) = 65

(***************************************************************************)
(* C17.                                                                    *)
(***************************************************************************)
\* C17: in every reachable state whose status is not playing (start, level-complete,
\* game-complete, game-over), reached by any sequence of startGame, skipLevels,
\* continueToInfinite, restartGame, player moves and task firings, none of the three
\* periodic tasks (timer, enemy ticker, stalker ticker) is active.
C17_NoTaskUnlessPlaying == gameStatus # "playing" => AllStopped

(***************************************************************************)
(* C18.                                                                    *)
(***************************************************************************)
\* C18: a pending delayed level-advance or delayed hit-recovery is cancelled when it is
\* superseded: after a skip (one that loads a level) or a restart that happens while
\* such a one-shot task is pending, nothing is pending any more, and so no recovery or
\* advance scheduled before the skip or restart fires after it.
C18_CancelledWhenSuperseded ==
    [][((lastOp'.op = "skipLevels" /\ level' # level) \/ lastOp'.op = "restartGame")
           => (~hitTimeout' /\ ~nextLevelTimeout')]_vars

\* The in-bounds cardinal neighbours of cell e that are not walls.
ValidNeighbours(m, e) ==
    { c \in { Pos(e.x + d[1], e.y + d[2]) : d \in Dirs } : InBounds(m, c.x, c.y) /\ Get(m, c.x, c.y) # "W" }

\* The score of the step from e to c for the player at p: 2 if it reduces the
\* gap on the axis of larger magnitude, 1 if it reduces the gap on the other
\* axis, 0 otherwise. With equal gaps the vertical axis counts as the larger.
Score(p, e, c) ==
    LET gx == Abs(p.x - e.x)
        gy == Abs(p.y - e.y)
        reducesX == Abs(p.x - c.x) < gx
        reducesY == Abs(p.y - c.y) < gy
    IN  IF gx > gy THEN (IF reducesX THEN 2 ELSE IF reducesY THEN 1 ELSE 0)
        ELSE (IF reducesY THEN 2 ELSE IF reducesX THEN 1 ELSE 0)

\* C19: on an enemy tick every enemy with a valid neighbour moves to a valid
\* neighbour of maximal score, an enemy without one stays, and the enemies
\* keep their number and their order.
C19_EnemyStep ==
    [][lastOp'.op = "moveEnemies" =>
          /\ Len(enemies') = Len(enemies)
          /\ \A i \in 1..Len(enemies) :
                 LET e == enemies[i]
                     n == ValidNeighbours(maze, e)
                 IN  IF n = {} THEN enemies'[i] = e
                     ELSE /\ enemies'[i] \in n
                          /\ \A c \in n : Score(playerPosition, e, c) <= Score(playerPosition, e, enemies'[i])]_vars

\* The first enemy tick of a level with several enemies: each enemy is one
\* step from the cell the level placed it on, and one of them is nearer to
\* the player.
C19_Witness ==
    /\ lastOp.op = "moveEnemies"
    /\ enemyTicks = 1
    /\ Len(enemies) >= 2
    /\ \E seed \in WanderSeeds :
           \E placed \in {loadLevel(St, level, seed).enemies} :
               /\ Len(placed) = Len(enemies)
               /\ \A i \in 1..Len(enemies) : Dist(enemies[i], placed[i]) = 1
               /\ \E i \in 1..Len(enemies) :
                      Dist(enemies[i], playerPosition) < Dist(placed[i], playerPosition)

\* No position occurs twice in seq.
Distinct(seq) == \A i, j \in 1..Len(seq) : i # j => seq[i] # seq[j]

\* C20: immediately after every level load and every regeneration the player
\* is on Start, every enemy is at Manhattan distance > 5 from Start, every
\* stalker at distance > 10 from it, every regenerate icon at distance > 8
\* from Start and from Exit, no teleporter lies on Start, on Exit or on a
\* regenerate icon, and the positions within each set are pairwise distinct.
C20_Separation ==
    JustPlaced =>
        /\ playerPosition = startPosition
        /\ \A i \in 1..Len(enemies) : Dist(enemies[i], startPosition) > 5
        /\ \A i \in 1..Len(stalkers) : Dist(stalkers[i], startPosition) > 10
        /\ \A i \in 1..Len(regenerateIconPositions) :
               /\ Dist(regenerateIconPositions[i], startPosition) > 8
               /\ Dist(regenerateIconPositions[i], ExitCell) > 8
        /\ \A i \in 1..Len(teleporterPositions) :
               /\ teleporterPositions[i] # startPosition
               /\ teleporterPositions[i] # ExitCell
               /\ ~Contains(regenerateIconPositions, teleporterPositions[i])
        /\ Distinct(enemies) /\ Distinct(stalkers)
        /\ Distinct(regenerateIconPositions) /\ Distinct(teleporterPositions)

\* A regeneration away from the corner, at a level with all four kinds, has
\* placed several of each kind that comes in numbers.
C20_Witness ==
    /\ lastOp.op = "regenerate"
    /\ startPosition # Pos(1, 1)
    /\ playerPosition = startPosition
    /\ Len(enemies) >= 2 /\ Len(stalkers) = 1
    /\ Len(regenerateIconPositions) >= 4
    /\ Len(teleporterPositions) >= 2

OnOpenCell(p) == InBounds(maze, p.x, p.y) /\ Get(maze, p.x, p.y) # "W"

\* C22: in every state with a loaded grid the player, every enemy and every
\* stalker are in bounds and on a cell of the current grid that is not a wall.
C22_OnOpenCells ==
    maze # << >> =>
        /\ OnOpenCell(playerPosition)
        /\ \A i \in 1..Len(enemies) : OnOpenCell(enemies[i])
        /\ \A i \in 1..Len(stalkers) : OnOpenCell(stalkers[i])

\* After an AI tick the player has gone through a teleporter, with the
\* enemies and the stalker on the grid.
C22_Witness ==
    /\ gameStatus = "playing"
    /\ enemyTicks + stalkerTicks >= 1
    /\ ~canTeleport
    /\ Contains(teleporterPositions, playerPosition)
    /\ Len(enemies) >= 2 /\ Len(stalkers) = 1

\* C23: in every state can-teleport is false only while the player stands on
\* a teleporter: with the player on any other cell can-teleport is true.
C23_DebounceOnlyOnTeleporter ==
    ~canTeleport => Contains(teleporterPositions, playerPosition)

\* C24: level goes from 30 or below to above 30 only by continueToInfinite
\* called in status game-complete.
C24_InfiniteOnlyAfterComplete ==
    [][(level <= 30 /\ level' > 30)
           => (lastOp'.op = "continueToInfinite" /\ gameStatus = "game-complete")]_vars

\* C25: at most one timer task is active at any time (the two tickers are
\* stopped by their own start, so each handle is the only task of its kind),
\* and with every handle stopped no task is left.
C25_OneTaskOfEachKind ==
    /\ timers <= 1
    /\ ~timerInterval => timers = 0

====
